---------------------------- MODULE Spec2Model ----------------------------
(***************************************************************************)
(* EcoHouse monitoring dashboard: the CSV record store written by          *)
(* datagen.py and read by dashboard.py (load_data, the tail window of      *)
(* main, compute_insights).                                                *)
(*                                                                         *)
(* Numbers.  A float read from the CSV is modelled by the decimal it       *)
(* denotes, as a scaled integer: temperature_c in 1/TempScale degrees,     *)
(* power_w in 1/PowerScale watts (the generator rounds to 2 and 1          *)
(* decimals).  NaN is the float pandas stores for a missing field; every   *)
(* ordered comparison with NaN is false.  Timestamps are whole seconds, the *)
(* wall clock counts 1/ClockScale seconds.  NaT is the timestamp           *)
(* pd.to_datetime(errors="coerce") stores for a text it cannot parse.      *)
(* A reading is its exact decimal: the last-bit difference between a       *)
(* decimal and the double pandas parses it to is not modelled.             *)
(***************************************************************************)
EXTENDS Integers, Sequences, FiniteSets, TLC

VARIABLES
    clock,      \* wall clock, in 1/ClockScale seconds
    csv,        \* the file at csv_path
    gen,        \* the generator process: its position, the row being appended
    df,         \* dashboard: what load_data returned in the last run of main
    df_view,    \* dashboard: df.tail(window_points); or the argument of compute_insights
    insights,   \* dashboard: what compute_insights returned
    status      \* dashboard: how the last run of main (or call) ended

vars == <<clock, csv, gen, df, df_view, insights, status>>

---------------------------------------------------------------------------
(* Units and sentinels *)

TempScale == 100
PowerScale == 10
ClockScale == 2

NaN == -1
NaT == -2

(* Thresholds of compute_insights *)
TEMP_HIGH_C == 38
TEMP_LOW_C == 16
POWER_HIGH_W == 2500
POWER_LOW_W == 150
SPIKE_W == 400
STALE_SECONDS == 30

(* Bounds of the model *)
MaxLen == 3            \* longest window handed to compute_insights directly
MaxInitRows == 3       \* most data rows of a pre-existing store
MaxRowsWritten == 2    \* --max-rows of the generator
MaxClock == 2          \* the clock stops advancing here
MaxWindowPoints == 3   \* largest window_points (the slider, scaled down)

---------------------------------------------------------------------------
(* Float helpers *)

IsNaN(x) == x = NaN

FGe(a, b) == ~IsNaN(a) /\ ~IsNaN(b) /\ a >= b
FLe(a, b) == ~IsNaN(a) /\ ~IsNaN(b) /\ a <= b
FGt(a, b) == ~IsNaN(a) /\ ~IsNaN(b) /\ a > b
FLt(a, b) == ~IsNaN(a) /\ ~IsNaN(b) /\ a < b

\* float subtraction: NaN if either operand is NaN
FSub(a, b) == IF IsNaN(a) \/ IsNaN(b) THEN NaN ELSE a - b

\* n/d rounded to the nearest integer, ties to even (Python's format rounding)
RoundHalfEven(n, d) ==
    LET q == n \div d
        r == n % d
    IN  IF 2 * r < d THEN q
        ELSE IF 2 * r > d THEN q + 1
        ELSE IF q % 2 = 0 THEN q ELSE q + 1

\* f"{temp:.1f}": tenths of a degree; "nan" for NaN
FmtTemp(temp) == IF IsNaN(temp) THEN NaN ELSE RoundHalfEven(temp * 10, TempScale)

\* f"{power:.0f}": whole watts; "nan" for NaN
FmtWatts(power) == IF IsNaN(power) THEN NaN ELSE RoundHalfEven(power, PowerScale)

Last(s) == s[Len(s)]

---------------------------------------------------------------------------
(* compute_insights: an insight is (text, level, icon); text is the        *)
(* message and the number formatted into it                                *)

Insight(text, level, icon) == [text |-> text, level |-> level, icon |-> icon]

WaitingInsight == Insight(<<"Waiting for more data points...">>, "info", "hourglass")

TemperatureInsightGt(temp) ==
    IF FGt(temp, TEMP_HIGH_C * TempScale)
    THEN Insight(<<"High temperature detected", FmtTemp(temp)>>, "warn", "thermometer")
    ELSE IF FLt(temp, TEMP_LOW_C * TempScale)
    THEN Insight(<<"Low temperature detected", FmtTemp(temp)>>, "warn", "cold")
    ELSE Insight(<<"Temperature normal", FmtTemp(temp)>>, "ok", "check")

TemperatureInsight(temp) ==
    IF FGe(temp, TEMP_HIGH_C * TempScale)
    THEN Insight(<<"High temperature detected", FmtTemp(temp)>>, "warn", "thermometer")
    ELSE IF FLe(temp, TEMP_LOW_C * TempScale)
    THEN Insight(<<"Low temperature detected", FmtTemp(temp)>>, "warn", "cold")
    ELSE Insight(<<"Temperature normal", FmtTemp(temp)>>, "ok", "check")

PowerInsightGt(power) ==
    IF FGt(power, POWER_HIGH_W * PowerScale)
    THEN Insight(<<"High power usage", FmtWatts(power)>>, "warn", "bolt")
    ELSE IF FLt(power, POWER_LOW_W * PowerScale)
    THEN Insight(<<"Very low power usage", FmtWatts(power)>>, "info", "moon")
    ELSE Insight(<<"Power stable", FmtWatts(power)>>, "ok", "plug")

PowerInsight(power) ==
    IF FGe(power, POWER_HIGH_W * PowerScale)
    THEN Insight(<<"High power usage", FmtWatts(power)>>, "warn", "bolt")
    ELSE IF FLe(power, POWER_LOW_W * PowerScale)
    THEN Insight(<<"Very low power usage", FmtWatts(power)>>, "info", "moon")
    ELSE Insight(<<"Power stable", FmtWatts(power)>>, "ok", "plug")

\* the spike/drop rule: a sequence of zero or one insight
SpikeInsightsGe(power, prev_power) ==
    LET power_delta == FSub(power, prev_power)
    IN  IF FGe(power_delta, SPIKE_W * PowerScale)
        THEN <<Insight(<<"Load spike detected", FmtWatts(power_delta)>>, "warn", "chart_up")>>
        ELSE IF FLe(power_delta, -(SPIKE_W * PowerScale))
        THEN <<Insight(<<"Load drop detected", FmtWatts(power_delta)>>, "info", "chart_down")>>
        ELSE <<>>

SpikeInsights(power, prev_power) ==
    LET power_delta == FSub(power, prev_power)
    IN  IF FGt(power_delta, SPIKE_W * PowerScale)
        THEN <<Insight(<<"Load spike detected", FmtWatts(power_delta)>>, "warn", "chart_up")>>
        ELSE IF FLt(power_delta, -(SPIKE_W * PowerScale))
        THEN <<Insight(<<"Load drop detected", FmtWatts(power_delta)>>, "info", "chart_down")>>
        ELSE <<>>

\* age_sec = (now_utc - latest["timestamp"]).total_seconds(), in clock units;
\* int(age_sec) truncates (age_sec is positive where it is formatted)
FreshnessInsightGe(now_utc, timestamp) ==
    LET age == now_utc - timestamp * ClockScale
    IN  IF age >= STALE_SECONDS * ClockScale
        THEN Insight(<<"Data delay: last update", age \div ClockScale>>, "warn", "orange")
        ELSE Insight(<<"Live feed healthy">>, "ok", "green")

FreshnessInsight(now_utc, timestamp) ==
    LET age == now_utc - timestamp * ClockScale
    IN  IF age > STALE_SECONDS * ClockScale
        THEN Insight(<<"Data delay: last update", age \div ClockScale>>, "warn", "orange")
        ELSE Insight(<<"Live feed healthy">>, "ok", "green")

ComputeInsightsFreshFirst(d, now_utc) ==
    IF Len(d) < 3 THEN <<WaitingInsight>>
    ELSE LET latest == d[Len(d)]
             prev == d[Len(d) - 1]
         IN  <<FreshnessInsight(now_utc, latest.timestamp),
               TemperatureInsight(latest.temperature_c),
               PowerInsight(latest.power_w)>>
             \o SpikeInsights(latest.power_w, prev.power_w)

ComputeInsightsGuard2(d, now_utc) ==
    IF Len(d) < 2 THEN <<WaitingInsight>>
    ELSE LET latest == d[Len(d)]
             prev == d[Len(d) - 1]
         IN  <<TemperatureInsight(latest.temperature_c),
               PowerInsight(latest.power_w)>>
             \o SpikeInsights(latest.power_w, prev.power_w)
             \o <<FreshnessInsight(now_utc, latest.timestamp)>>

ComputeInsights(d, now_utc) ==
    IF Len(d) < 3 THEN <<WaitingInsight>>
    ELSE LET latest == d[Len(d)]
             prev == d[Len(d) - 1]
         IN  <<TemperatureInsight(latest.temperature_c),
               PowerInsight(latest.power_w)>>
             \o SpikeInsights(latest.power_w, prev.power_w)
             \o <<FreshnessInsight(now_utc, latest.timestamp)>>

---------------------------------------------------------------------------
(* The record store.  A data row on disk is three text fields.  A          *)
(* timestamp text is a full ISO-8601 instant ("iso", of second t), a       *)
(* proper prefix of one ("cut": the row is still being written) or text    *)
(* that is no timestamp ("bad").  A numeric text is the decimal it         *)
(* denotes; a field not on disk is read by pd.read_csv as NaN.             *)

RawRow(ts, temp, power) == [timestamp |-> ts, temperature_c |-> temp, power_w |-> power]

Iso(t) == [k |-> "iso", t |-> t]
CutTs(t) == [k |-> "cut", t |-> t]
BadTs == [k |-> "bad", t |-> 0]

Absent == [exists |-> FALSE, header |-> FALSE, rows |-> <<>>]
ZeroBytes == [exists |-> TRUE, header |-> FALSE, rows |-> <<>>]
HeaderOnly == [exists |-> TRUE, header |-> TRUE, rows |-> <<>>]

\* pd.to_datetime(text, errors="coerce", utc=True).  A prefix of an ISO
\* instant either fails to parse (NaT) or parses with the missing low-order
\* fields taken as zero, depending on the prefix and on the parser's format
\* inference: lenient chooses.
ToDatetime(tok, lenient) ==
    IF tok.k = "iso" THEN tok.t
    ELSE IF tok.k = "cut" /\ lenient THEN (tok.t \div 60) * 60
    ELSE NaT

ParseTimestamps(rows, lenient) ==
    [i \in 1..Len(rows) |->
        [timestamp |-> ToDatetime(rows[i].timestamp, lenient),
         temperature_c |-> rows[i].temperature_c,
         power_w |-> rows[i].power_w]]

RECURSIVE SelectSeq2(_, _)
\* the subsequence of the rows satisfying keep (a set of rows)
SelectSeq2(rows, keep) ==
    IF rows = <<>> THEN <<>>
    ELSE IF Head(rows) \in keep THEN <<Head(rows)>> \o SelectSeq2(Tail(rows), keep)
    ELSE SelectSeq2(Tail(rows), keep)

Range(s) == {s[i] : i \in 1..Len(s)}

DropNaKeepAll(rows) == rows

\* df.dropna(subset=["timestamp"])
DropNa(rows) == SelectSeq2(rows, {r \in Range(rows) : r.timestamp # NaT})

RemoveAt(s, i) == SubSeq(s, 1, i - 1) \o SubSeq(s, i + 1, Len(s))

SortValuesNone(rows) == {rows}

RECURSIVE SortValues(_)
\* df.sort_values("timestamp"): the default sort is not stable, so rows with
\* equal timestamps may come out in any order; the set of possible results
SortValues(rows) ==
    IF rows = <<>> THEN {<<>>}
    ELSE LET mins == {i \in 1..Len(rows) :
                        \A j \in 1..Len(rows) : rows[i].timestamp <= rows[j].timestamp}
         IN  UNION {{<<rows[i]>> \o t : t \in SortValues(RemoveAt(rows, i))} : i \in mins}

\* load_data: the set of possible outcomes.  pd.read_csv raises
\* EmptyDataError on a file of zero bytes (no header line to take columns from).
LoadData(c) ==
    IF ~c.exists THEN {[raised |-> FALSE, df |-> <<>>]}
    ELSE IF ~c.header THEN {[raised |-> TRUE, df |-> <<>>]}
    ELSE IF c.rows = <<>> THEN {[raised |-> FALSE, df |-> <<>>]}
    ELSE {[raised |-> FALSE, df |-> s] :
            s \in UNION {SortValues(DropNa(ParseTimestamps(c.rows, lenient))) :
                            lenient \in BOOLEAN}}

TailTooLong(d, n) == SubSeq(d, IF Len(d) > n + 1 THEN Len(d) - n ELSE 1, Len(d))

\* df.tail(n)
TailN(d, n) == SubSeq(d, IF Len(d) > n THEN Len(d) - n + 1 ELSE 1, Len(d))

---------------------------------------------------------------------------
(* datagen.py *)

NoRow == RawRow(BadTs, NaN, NaN)

\* values generate_next_row can return (temperature clipped to [10, 55],
\* power to [0, 6000])
GenTemps == {28 * TempScale + 13}
GenPowers == {900 * PowerScale + 2}

\* where a reader can see the row being appended end
Cuts == {"ts_mid", "ts_end", "temp_mid", "temp_end", "power_mid", "full"}

\* the row as far as it is on disk
CutRow(row, cut) ==
    CASE cut = "ts_mid" -> RawRow(CutTs(row.timestamp.t), NaN, NaN)
      [] cut = "ts_end" -> RawRow(row.timestamp, NaN, NaN)
      [] cut = "temp_mid" ->
            RawRow(row.timestamp, (row.temperature_c \div TempScale) * TempScale, NaN)
      [] cut = "temp_end" -> RawRow(row.timestamp, row.temperature_c, NaN)
      [] cut = "power_mid" ->
            RawRow(row.timestamp, row.temperature_c,
                   (row.power_w \div PowerScale) * PowerScale)
      [] OTHER -> row

\* init_csv_if_missing: the file exists
GenInitExists ==
    /\ gen.pc = "start"
    /\ csv.exists
    /\ gen' = [gen EXCEPT !.pc = "ready"]
    /\ UNCHANGED <<clock, csv, df, df_view, insights, status>>

\* init_csv_if_missing: to_csv opens (creates) the file ...
GenInitCreate ==
    /\ gen.pc = "start"
    /\ ~csv.exists
    /\ csv' = ZeroBytes
    /\ gen' = [gen EXCEPT !.pc = "created"]
    /\ UNCHANGED <<clock, df, df_view, insights, status>>

\* ... and writes the header line
GenInitHeader ==
    /\ gen.pc = "created"
    /\ csv' = [csv EXCEPT !.header = TRUE]
    /\ gen' = [gen EXCEPT !.pc = "ready"]
    /\ UNCHANGED <<clock, df, df_view, insights, status>>

\* generate_next_row, and append_row as far as the first bytes on disk
GenAppendBegin(temp, power, cut) ==
    /\ gen.pc = "ready"
    /\ LET row == RawRow(Iso(clock \div ClockScale), temp, power)
       IN  /\ csv' = [csv EXCEPT !.rows = Append(@, CutRow(row, cut))]
           /\ gen' = [gen EXCEPT !.pc = "writing", !.row = row]
    /\ UNCHANGED <<clock, df, df_view, insights, status>>

\* append_row: the rest of the row is on disk; the loop counts it
GenAppendEnd ==
    /\ gen.pc = "writing"
    /\ csv' = [csv EXCEPT !.rows = SubSeq(@, 1, Len(@) - 1) \o <<gen.row>>]
    /\ gen' = [pc |-> IF gen.rows_written + 1 >= MaxRowsWritten
                      THEN "stopped" ELSE "sleeping",
               row |-> NoRow,
               rows_written |-> gen.rows_written + 1]
    /\ UNCHANGED <<clock, df, df_view, insights, status>>

\* time.sleep(args.interval) returns
GenSleep ==
    /\ gen.pc = "sleeping"
    /\ gen' = [gen EXCEPT !.pc = "ready"]
    /\ UNCHANGED <<clock, csv, df, df_view, insights, status>>

\* time passes
Tick ==
    /\ clock < MaxClock
    /\ clock' = clock + 1
    /\ UNCHANGED <<csv, gen, df, df_view, insights, status>>

---------------------------------------------------------------------------
(* dashboard.py *)

\* the window_points slider (20..400 in the program, scaled to the stores
\* of the model)
WindowPoints == 2..MaxWindowPoints

\* one run of main: load, window, insights
Main(window_points) ==
    /\ status \in {"none", "exception", "no_data", "rendered"}
    /\ \E out \in LoadData(csv) :
        IF out.raised
        THEN /\ status' = "exception"
             /\ df' = <<>> /\ df_view' = <<>> /\ insights' = <<>>
        ELSE IF out.df = <<>>
        THEN /\ status' = "no_data"
             /\ df' = <<>> /\ df_view' = <<>> /\ insights' = <<>>
        ELSE /\ status' = "rendered"
             /\ df' = out.df
             /\ df_view' = TailN(out.df, window_points)
             /\ insights' = ComputeInsights(TailN(out.df, window_points), clock)
    /\ UNCHANGED <<clock, csv, gen>>

\* a direct call compute_insights(df_view)
ComputeInsightsCall ==
    /\ status = "input"
    /\ insights' = ComputeInsights(df_view, clock)
    /\ status' = "evaluated"
    /\ UNCHANGED <<clock, csv, gen, df, df_view>>

---------------------------------------------------------------------------
(* Specifications *)

GenIdle == [pc |-> "start", row |-> NoRow, rows_written |-> 0]

\* the store an earlier run of the generator left: two rows
PriorRun ==
    [exists |-> TRUE, header |-> TRUE,
     rows |-> <<RawRow(Iso(0), 28 * TempScale, 900 * PowerScale),
                RawRow(Iso(0), 28 * TempScale + 10, 900 * PowerScale + 40)>>]

\* Spec: the generator and the dashboard run side by side on one store
Init ==
    /\ clock = 0
    /\ csv \in {Absent, PriorRun}
    /\ gen = GenIdle
    /\ df = <<>> /\ df_view = <<>> /\ insights = <<>>
    /\ status = "none"

Next ==
    \/ GenInitExists
    \/ GenInitCreate
    \/ GenInitHeader
    \/ \E temp \in GenTemps, power \in GenPowers, cut \in Cuts :
          GenAppendBegin(temp, power, cut)
    \/ GenAppendEnd
    \/ GenSleep
    \/ Tick
    \/ \E window_points \in WindowPoints : Main(window_points)

Spec == Init /\ [][Next]_vars

\* SpecLoad: the dashboard runs on a store that is already there
SeqsUpTo(S, n) == UNION {[1..k -> S] : k \in 0..n}

InitRows ==
    {RawRow(ts, 28 * TempScale, power) :
        ts \in {Iso(0), Iso(1), Iso(2), BadTs},
        power \in {900 * PowerScale, 1400 * PowerScale}}

InitialStores ==
    {Absent, ZeroBytes}
    \cup {[exists |-> TRUE, header |-> TRUE, rows |-> rows] :
            rows \in SeqsUpTo(InitRows, MaxInitRows)}

InitLoad ==
    /\ clock = 0
    /\ csv \in InitialStores
    /\ gen = [GenIdle EXCEPT !.pc = "stopped"]
    /\ df = <<>> /\ df_view = <<>> /\ insights = <<>>
    /\ status = "none"

NextLoad == \E window_points \in WindowPoints : Main(window_points)

SpecLoad == InitLoad /\ [][NextLoad]_vars

\* SpecInsights: compute_insights applied to a window
Reading(ts, temp, power) == [timestamp |-> ts, temperature_c |-> temp, power_w |-> power]

TempValues ==
    {TEMP_LOW_C * TempScale, TEMP_LOW_C * TempScale + 1,
     TEMP_HIGH_C * TempScale - 1, TEMP_HIGH_C * TempScale, NaN}

PowerValues ==
    {POWER_LOW_W * PowerScale, POWER_LOW_W * PowerScale + 1,
     (POWER_LOW_W + SPIKE_W) * PowerScale + 1,
     POWER_HIGH_W * PowerScale - 1, POWER_HIGH_W * PowerScale, NaN}

\* the readings that differ from a nominal reading in at most one field
Readings ==
    {Reading(ts, 28 * TempScale, 900 * PowerScale) : ts \in {0, 1}}
    \cup {Reading(0, temp, 900 * PowerScale) : temp \in TempValues}
    \cup {Reading(0, 28 * TempScale, power) : power \in PowerValues}

NowValues ==
    {0, ClockScale, STALE_SECONDS * ClockScale, STALE_SECONDS * ClockScale + 1,
     (STALE_SECONDS + 1) * ClockScale, (STALE_SECONDS + 1) * ClockScale + 1}

InitInsights ==
    /\ clock \in NowValues
    /\ csv = Absent
    /\ gen = [GenIdle EXCEPT !.pc = "stopped"]
    /\ df = <<>>
    /\ df_view \in SeqsUpTo(Readings, MaxLen)
    /\ insights = <<>>
    /\ status = "input"

NextInsights == ComputeInsightsCall

SpecInsights == InitInsights /\ [][NextInsights]_vars

---------------------------------------------------------------------------
(* Properties of compute_insights, checked under SpecInsights *)

Label(i) == i.text[1]

IsTemperature(i) ==
    Label(i) \in {"High temperature detected", "Low temperature detected",
                  "Temperature normal"}
IsPower(i) == Label(i) \in {"High power usage", "Very low power usage", "Power stable"}
IsSpikeDrop(i) == Label(i) \in {"Load spike detected", "Load drop detected"}
IsFreshness(i) == Label(i) \in {"Data delay: last update", "Live feed healthy"}

Positions(P(_)) == {k \in 1..Len(insights) : P(insights[k])}

Evaluated3 == status = "evaluated" /\ Len(df_view) >= 3

\* C1: for a window of 3 or more readings the result is one temperature
\* insight, one power insight, at most one spike/drop insight and one
\* freshness insight, in that order: length 3 or 4, temperature first,
\* freshness last.
C1_FixedOrder ==
    Evaluated3 =>
        /\ Len(insights) \in {3, 4}
        /\ Positions(IsTemperature) = {1}
        /\ Positions(IsPower) = {2}
        /\ Positions(IsSpikeDrop) = (IF Len(insights) = 4 THEN {3} ELSE {})
        /\ Positions(IsFreshness) = {Len(insights)}

C1_Witness ==
    /\ Evaluated3
    /\ Len(insights) = 4
    /\ IsSpikeDrop(insights[3])
    /\ IsFreshness(insights[4])

\* C2: for a window of fewer than 3 readings the result is exactly one
\* insight, of level info, the waiting message, and no rule's insight.
C2_WaitingOnly ==
    (status = "evaluated" /\ Len(df_view) < 3) =>
        /\ Len(insights) = 1
        /\ insights[1].level = "info"
        /\ Label(insights[1]) = "Waiting for more data points..."
        /\ Positions(IsTemperature) = {}
        /\ Positions(IsPower) = {}
        /\ Positions(IsSpikeDrop) = {}
        /\ Positions(IsFreshness) = {}

C2_Witness ==
    /\ status = "evaluated"
    /\ Len(df_view) = 2
    /\ Len(insights) = 1
    /\ insights[1].level = "info"

\* C3: the temperature insight depends on the last reading only: at or above
\* TEMP_HIGH_C warn "high temperature"; otherwise at or below TEMP_LOW_C warn
\* "low temperature"; otherwise ok "temperature normal".
C3_Temperature ==
    Evaluated3 =>
        LET t == Last(df_view).temperature_c
            i == insights[1]
        IN  IF t # NaN /\ t >= TEMP_HIGH_C * TempScale
            THEN Label(i) = "High temperature detected" /\ i.level = "warn"
            ELSE IF t # NaN /\ t <= TEMP_LOW_C * TempScale
            THEN Label(i) = "Low temperature detected" /\ i.level = "warn"
            ELSE Label(i) = "Temperature normal" /\ i.level = "ok"

C3_Witness ==
    /\ Evaluated3
    /\ Last(df_view).temperature_c = TEMP_HIGH_C * TempScale
    /\ Label(insights[1]) = "High temperature detected"

\* C4: the power insight depends on the last reading only: at or above
\* POWER_HIGH_W warn "high power usage"; otherwise at or below POWER_LOW_W
\* info "very low power usage"; otherwise ok "power stable".
C4_Power ==
    Evaluated3 =>
        LET p == Last(df_view).power_w
            i == insights[2]
        IN  IF p # NaN /\ p >= POWER_HIGH_W * PowerScale
            THEN Label(i) = "High power usage" /\ i.level = "warn"
            ELSE IF p # NaN /\ p <= POWER_LOW_W * PowerScale
            THEN Label(i) = "Very low power usage" /\ i.level = "info"
            ELSE Label(i) = "Power stable" /\ i.level = "ok"

C4_Witness ==
    /\ Evaluated3
    /\ Last(df_view).power_w = POWER_LOW_W * PowerScale
    /\ Label(insights[2]) = "Very low power usage"

\* C5: with delta the last power minus the second-to-last power, delta above
\* SPIKE_W gives exactly one warn "load spike", delta below -SPIKE_W exactly
\* one info "load drop", any delta from -SPIKE_W to SPIKE_W none; the power
\* insight is there either way.
C5_SpikeDrop ==
    Evaluated3 =>
        LET p == Last(df_view).power_w
            q == df_view[Len(df_view) - 1].power_w
            known == p # NaN /\ q # NaN
            at == Positions(IsSpikeDrop)
        IN  /\ IsPower(insights[2])
            /\ IF known /\ p - q > SPIKE_W * PowerScale
               THEN /\ at = {3}
                    /\ Label(insights[3]) = "Load spike detected"
                    /\ insights[3].level = "warn"
               ELSE IF known /\ p - q < -(SPIKE_W * PowerScale)
               THEN /\ at = {3}
                    /\ Label(insights[3]) = "Load drop detected"
                    /\ insights[3].level = "info"
               ELSE at = {}

C5_Witness ==
    /\ Evaluated3
    /\ Last(df_view).power_w - df_view[Len(df_view) - 1].power_w = SPIKE_W * PowerScale + 1
    /\ Label(insights[2]) = "Power stable"
    /\ Label(insights[3]) = "Load spike detected"

\* C6: with age the time from the last reading's timestamp to now, an age
\* above STALE_SECONDS gives warn "data delay" with the age in whole seconds,
\* an age up to and including STALE_SECONDS gives ok "live feed healthy".
C6_Freshness ==
    Evaluated3 =>
        LET age == clock - Last(df_view).timestamp * ClockScale
            i == Last(insights)
        IN  IF age > STALE_SECONDS * ClockScale
            THEN /\ Label(i) = "Data delay: last update"
                 /\ i.level = "warn"
                 /\ i.text[2] * ClockScale <= age
                 /\ age < (i.text[2] + 1) * ClockScale
            ELSE Label(i) = "Live feed healthy" /\ i.level = "ok"

C6_Witness ==
    /\ Evaluated3
    /\ clock - Last(df_view).timestamp * ClockScale = STALE_SECONDS * ClockScale
    /\ Label(Last(insights)) = "Live feed healthy"

---------------------------------------------------------------------------
(* Properties of load_data *)

IsSorted(d) == \A i \in 1..(Len(d) - 1) : d[i].timestamp <= d[i + 1].timestamp

Max(S) == CHOOSE x \in S : \A y \in S : y <= x

\* the instants of the rows of the store whose timestamp is a full instant
StoreInstants == {r.timestamp.t : r \in {x \in Range(csv.rows) : x.timestamp.k = "iso"}}

\* C8 (under SpecLoad): whatever the order of the rows on disk, what
\* load_data returns is ascending by timestamp, and the last reading of the
\* window has the greatest timestamp of the store.
C8_SortedAscending ==
    (status \in {"rendered", "no_data"}) =>
        /\ IsSorted(df)
        /\ status = "rendered" =>
              /\ df_view # <<>>
              /\ Last(df_view).timestamp = Max(StoreInstants)

C8_Witness ==
    /\ status = "rendered"
    /\ Len(df) >= 3
    /\ Len(df_view) < Len(df)
    /\ \E i, j \in 1..Len(csv.rows) :
          /\ i < j
          /\ csv.rows[i].timestamp.k = "iso"
          /\ csv.rows[j].timestamp.k = "iso"
          /\ csv.rows[i].timestamp.t > csv.rows[j].timestamp.t

Count(d, r) == Cardinality({i \in 1..Len(d) : d[i] = r})

SameRows(a, b) ==
    /\ Len(a) = Len(b)
    /\ \A r \in Range(a) \cup Range(b) : Count(a, r) = Count(b, r)

\* what a load of the store as it is now may return according to C9: no
\* error, the rows whose timestamp parses and no other
LoadedExactly ==
    /\ status # "exception"
    /\ \A i \in 1..Len(df) : df[i].timestamp # NaT
    /\ csv.exists =>
          \E lenient \in BOOLEAN :
              SameRows(df, SelectSeq2(ParseTimestamps(csv.rows, lenient),
                                      {r \in Range(ParseTimestamps(csv.rows, lenient)) :
                                          r.timestamp # NaT}))
    /\ ~csv.exists => df = <<>>

\* C9: every load (a step of the dashboard: the generator and the clock
\* stand still) returns exactly the rows of the store whose timestamp
\* parses and raises no error; an absent or empty store gives an empty
\* result, not an error.
C9_ExactlyParsableRows ==
    [][(gen' = gen /\ clock' = clock) => LoadedExactly']_vars

AllComplete(d) ==
    \A i \in 1..Len(d) :
        /\ d[i].timestamp # NaT
        /\ d[i].temperature_c # NaN
        /\ d[i].power_w # NaN

\* C10: a load while the generator is in its append loop, the last row
\* possibly written in part, does not fail, and every reading it hands to
\* compute_insights has a timestamp, a temperature and a power.
C10_PartialRowExcluded ==
    [][(gen' = gen /\ clock' = clock
        /\ gen.pc \in {"ready", "writing", "sleeping", "stopped"})
       => (status' # "exception" /\ AllComplete(df_view'))]_vars

=============================================================================
